---- MODULE Spec2Model ----
(***************************************************************************)
(* Conway's Game of Life on a fixed grid (src/main.rs): the SquareMap of   *)
(* neighbour counters, the game_logic generation engine, the LogicState    *)
(* scheduler of game_loop, the render/apply step handle_rendering, and the *)
(* Placing-mode input handlers.                                            *)
(*                                                                         *)
(* An entity of the grid is identified with its square's <<y, x>> (setup   *)
(* spawns exactly one entity per (row, col) and stores it at map[row][col]).*)
(* A pass is one run of the Main schedule: the state transition, then the  *)
(* Update systems (each once, in any order), then the deferred commands.   *)
(* Camera systems (handle_scroll, handle_move) touch only the camera and   *)
(* are left out.                                                           *)
(***************************************************************************)
EXTENDS Integers, Sequences, FiniteSets

VARIABLES
    game_state,                  \* State<GameState>
    next_game_state,             \* NextState<GameState>: "None" or the pending state
    logic_state,                 \* LogicState
    game_tick_timer,             \* elapsed time of the repeating GameTickTimer
    alive,                       \* the entities that carry the Alive marker
    color,                       \* Sprite.color of every square
    number_of_neighbors,         \* SquareMap: the counter of every square
    entities_that_died,          \* RenderInput.entities_that_died
    entities_born,               \* RenderInput.entities_born
    potentially_changed_squares, \* game_logic's local HashSet, between its two loops
    remaining,                   \* squares a running loop has yet to visit
    queue,                       \* deferred commands not yet applied
    to_run,                      \* Update systems that have not run yet in this pass
    pc,                          \* "schedule", or the place inside game_logic
    read_alive,                  \* history: the live set the last game_logic read
    read_before,                 \* history: the live set the game_logic before it read
    last_run,                    \* history: the one-shot system that completed last
    unconsumed,                  \* history: results produced minus results applied
    presses                      \* history: how often Space was pressed

vars == <<game_state, next_game_state, logic_state, game_tick_timer, alive, color,
          number_of_neighbors, entities_that_died, entities_born,
          potentially_changed_squares, remaining, queue, to_run, pc, read_alive,
          read_before, last_run, unconsumed, presses>>

---------------------------------------------------------------------------
(* Bounds of the model *)

NUM_OF_COLS == 5
NUM_OF_ROWS == 5
\* the longest frame delta, in time units of 50 ms
MaxDelta == 4
\* the user presses Space at most MaxPresses times
MaxPresses == 3
\* the cursor is held over the first MaxClick + 1 squares (row-major), or off the grid
MaxClick == 3

---------------------------------------------------------------------------
(* Program constants *)

\* GAME_TICK_SECOND = 0.1 s, in time units of 50 ms
GAME_TICK_SECOND == 2

---------------------------------------------------------------------------
(* The grid *)

Squares == (0 .. NUM_OF_ROWS - 1) \X (0 .. NUM_OF_COLS - 1)

Index(c) == c[1] * NUM_OF_COLS + c[2]

Range(s) == {s[i] : i \in DOMAIN s}

\* the (dx, dy) pairs of the two nested loops, (0, 0) skipped, in loop order
NeighborOffsets ==
    <<<<-1, -1>>, <<-1, 0>>, <<-1, 1>>, <<0, -1>>, <<0, 1>>, <<1, -1>>, <<1, 0>>, <<1, 1>>>>

\* Mutant: the grid wraps around (a toroidal neighbourhood).
NeighborAt_Wrapped(square, o) ==
    <<(square[1] + o[2]) % NUM_OF_ROWS, (square[2] + o[1]) % NUM_OF_COLS>>

\* let y = square.y + dy; let x = square.x + dx;  (o = <<dx, dy>>)
NeighborAt(square, o) == <<square[1] + o[2], square[2] + o[1]>>

\* Mutant: the upper bounds are compared with > in place of >=.
InBounds_OffByOne(c) ==
    ~(c[2] < 0 \/ c[1] < 0 \/ c[2] > NUM_OF_COLS \/ c[1] > NUM_OF_ROWS)

\* the negation of: x < 0 || y < 0 || x >= NUM_OF_COLS || y >= NUM_OF_ROWS
InBounds(c) ==
    ~(c[2] < 0 \/ c[1] < 0 \/ c[2] >= NUM_OF_COLS \/ c[1] >= NUM_OF_ROWS)

---------------------------------------------------------------------------
(* game_logic, one loop iteration at a time *)

\* The body of the inner loops for one offset of a live square: an offset out
\* of bounds is skipped; otherwise the neighbour joins the candidate set and,
\* when the map holds it (get_mut), its counter is incremented.
VisitOffset(square, o, st) ==
    LET n == NeighborAt(square, o)
    IN  IF ~InBounds(n) THEN st
        ELSE [cand   |-> st.cand \cup {n},
              counts |-> IF n \in DOMAIN st.counts
                         THEN [st.counts EXCEPT ![n] = @ + 1]
                         ELSE st.counts]

\* (In the folds below, the test on next only makes TLC evaluate the step
\* before it recurses; both branches are the same fold.)
RECURSIVE VisitOffsets(_, _, _)
VisitOffsets(square, offsets, st) ==
    IF offsets = <<>> THEN st
    ELSE LET next == VisitOffset(square, Head(offsets), st)
         IN  IF next = st THEN VisitOffsets(square, Tail(offsets), st)
             ELSE VisitOffsets(square, Tail(offsets), next)

\* Mutant: only the neighbours of a live square become candidates.
VisitSquare_NeighboursOnly(square, st) ==
    VisitOffsets(square, NeighborOffsets, st)

\* One iteration of the first loop: the live square joins the candidate set,
\* then its eight offsets are visited.
VisitSquare(square, st) ==
    VisitOffsets(square, NeighborOffsets,
                 [cand |-> st.cand \cup {square}, counts |-> st.counts])

RECURSIVE VisitAll(_, _)
VisitAll(order, st) ==
    IF order = <<>> THEN st
    ELSE LET next == VisitSquare(Head(order), st)
         IN  IF next = st THEN VisitAll(Tail(order), st)
             ELSE VisitAll(Tail(order), next)

\* Mutant: a live square survives on 2, 3 or 4 neighbours.
EvaluateSquare_SurvivesFour(c, live, st) ==
    IF c \notin DOMAIN st.counts THEN st
    ELSE LET n == st.counts[c]
             dies == c \in live /\ n # 2 /\ n # 3 /\ n # 4
         IN  [counts |-> [st.counts EXCEPT ![c] = 0],
              died   |-> IF dies THEN Append(st.died, c) ELSE st.died,
              born   |-> IF ~dies /\ n = 3 THEN Append(st.born, c) ELSE st.born]

\* Mutant: birth on 2 or 3 neighbours.
EvaluateSquare_BornAtTwo(c, live, st) ==
    IF c \notin DOMAIN st.counts THEN st
    ELSE LET n == st.counts[c]
             dies == c \in live /\ n # 2 /\ n # 3
         IN  [counts |-> [st.counts EXCEPT ![c] = 0],
              died   |-> IF dies THEN Append(st.died, c) ELSE st.died,
              born   |-> IF ~dies /\ (n = 3 \/ n = 2) THEN Append(st.born, c)
                         ELSE st.born]

\* Mutant: the counter is reset only for the squares that changed.
EvaluateSquare_ResetOnChange(c, live, st) ==
    IF c \notin DOMAIN st.counts THEN st
    ELSE LET n == st.counts[c]
             dies == c \in live /\ n # 2 /\ n # 3
         IN  [counts |-> IF dies \/ n = 3 THEN [st.counts EXCEPT ![c] = 0]
                         ELSE st.counts,
              died   |-> IF dies THEN Append(st.died, c) ELSE st.died,
              born   |-> IF ~dies /\ n = 3 THEN Append(st.born, c) ELSE st.born]

\* Mutant: the death test reads (alive && n != 2) || n != 3.
EvaluateSquare_DiedOr(c, live, st) ==
    IF c \notin DOMAIN st.counts THEN st
    ELSE LET n == st.counts[c]
             dies == (c \in live /\ n # 2) \/ n # 3
         IN  [counts |-> [st.counts EXCEPT ![c] = 0],
              died   |-> IF dies THEN Append(st.died, c) ELSE st.died,
              born   |-> IF ~dies /\ n = 3 THEN Append(st.born, c) ELSE st.born]

\* Mutant: a death is applied in place: the neighbours of a square that dies
\* lose one from their counters before they are evaluated.
EvaluateSquare_InPlace(c, live, st) ==
    IF c \notin DOMAIN st.counts THEN st
    ELSE LET n == st.counts[c]
             dies == c \in live /\ n # 2 /\ n # 3
             touches(d) == d # c /\ d[1] - c[1] \in -1 .. 1 /\ d[2] - c[2] \in -1 .. 1
         IN  [counts |-> [d \in DOMAIN st.counts |->
                             IF d = c THEN 0
                             ELSE IF dies /\ touches(d) THEN st.counts[d] - 1
                             ELSE st.counts[d]],
              died   |-> IF dies THEN Append(st.died, c) ELSE st.died,
              born   |-> IF ~dies /\ n = 3 THEN Append(st.born, c) ELSE st.born]

\* One iteration of the second loop on candidate c.
EvaluateSquare(c, live, st) ==
    IF c \notin DOMAIN st.counts THEN st
    ELSE LET n == st.counts[c]
             was_previously_alive == c \in live
         IN  [counts |-> [st.counts EXCEPT ![c] = 0],
              died   |-> IF was_previously_alive /\ n # 2 /\ n # 3
                         THEN Append(st.died, c) ELSE st.died,
              born   |-> IF ~(was_previously_alive /\ n # 2 /\ n # 3) /\ n = 3
                         THEN Append(st.born, c) ELSE st.born]

RECURSIVE EvaluateAll(_, _, _)
EvaluateAll(order, live, st) ==
    IF order = <<>> THEN st
    ELSE LET next == EvaluateSquare(Head(order), live, st)
         IN  IF next = st THEN EvaluateAll(Tail(order), live, st)
             ELSE EvaluateAll(Tail(order), live, next)

\* Iteration orders of a set of squares: the query and the HashSet fix none.
\* The model follows two, row-major ascending and descending.
RowMajor ==
    [i \in 1 .. NUM_OF_ROWS * NUM_OF_COLS |->
        <<(i - 1) \div NUM_OF_COLS, (i - 1) % NUM_OF_COLS>>]

Reverse(s) == [i \in 1 .. Len(s) |-> s[Len(s) + 1 - i]]

Ascending(S) == LET In(c) == c \in S IN SelectSeq(RowMajor, In)

Descending(S) == Reverse(Ascending(S))

IterationOrders(S) == {Ascending(S), Descending(S)}

---------------------------------------------------------------------------
(* Deferred commands *)

NoEntity == <<-1, -1>>
RunSystem(system) == [op |-> "run_system", system |-> system, entity |-> NoEntity]
InsertAlive(e) == [op |-> "insert", system |-> "none", entity |-> e]
RemoveAlive(e) == [op |-> "remove", system |-> "none", entity |-> e]

\* the commands a loop over a list of entities queues, in list order
RemoveAll(entities) == [i \in 1 .. Len(entities) |-> RemoveAlive(entities[i])]
InsertAll(entities) == [i \in 1 .. Len(entities) |-> InsertAlive(entities[i])]

Flushing == pc = "schedule" /\ to_run = {} /\ queue # <<>>

\* between passes: every system has run and every deferred command is applied
PassBoundary == pc = "schedule" /\ to_run = {} /\ queue = <<>>

---------------------------------------------------------------------------
(* Startup *)

Init ==
    /\ game_state = "Placing"
    /\ next_game_state = "None"
    /\ logic_state = "CalculationNeeded"
    /\ game_tick_timer = 0
    /\ alive = {}
    /\ color = [c \in Squares |-> "WHITE"]
    /\ number_of_neighbors = [c \in Squares |-> 0]
    /\ entities_that_died = <<>>
    /\ entities_born = <<>>
    /\ potentially_changed_squares = {}
    /\ remaining = {}
    /\ queue = <<>>
    /\ to_run = {}
    /\ pc = "schedule"
    /\ read_alive = {}
    /\ read_before = {}
    /\ last_run = "none"
    /\ unconsumed = 0
    /\ presses = 0

---------------------------------------------------------------------------
(* The pass *)

\* Mutant: game_loop is added without its run condition.
UpdateSystems_GameLoopAlways(state) ==
    {"handle_state_change", "game_loop"}
    \cup (IF state = "Placing" THEN {"handle_click"} ELSE {})

\* run conditions of the Update systems
UpdateSystems(state) ==
    {"handle_state_change"}
    \cup (IF state = "Placing" THEN {"handle_click"} ELSE {})
    \cup (IF state = "Ongoing" THEN {"game_loop"} ELSE {})

\* A new pass begins: the pending state transition is applied, then the
\* Update systems whose run condition holds are scheduled.
StateTransition ==
    /\ PassBoundary
    /\ game_state' = IF next_game_state = "None" THEN game_state ELSE next_game_state
    /\ next_game_state' = "None"
    /\ to_run' = UpdateSystems(game_state')
    /\ UNCHANGED <<logic_state, game_tick_timer, alive, color, number_of_neighbors,
                   entities_that_died, entities_born, potentially_changed_squares,
                   remaining, queue, pc, read_alive, read_before, last_run,
                   unconsumed, presses>>

handle_state_change(just_pressed) ==
    /\ pc = "schedule"
    /\ "handle_state_change" \in to_run
    /\ to_run' = to_run \ {"handle_state_change"}
    /\ next_game_state' =
           IF just_pressed
           THEN (IF game_state = "Placing" THEN "Ongoing" ELSE "Placing")
           ELSE next_game_state
    /\ presses' = IF just_pressed THEN presses + 1 ELSE presses
    /\ UNCHANGED <<game_state, logic_state, game_tick_timer, alive, color,
                   number_of_neighbors, entities_that_died, entities_born,
                   potentially_changed_squares, queue, pc, read_alive, read_before,
                   last_run, unconsumed, remaining>>

\* The cursor inputs: the button is up or the cursor is off the window
\* ("none"), or the cursor is over square coordinates <<square_y, square_x>>.
NoClick == <<"none">>
ClickInputs ==
    {NoClick}
    \cup {c \in Squares : Index(c) <= MaxClick}
    \cup {<<-1, 0>>, <<0, -1>>, <<NUM_OF_ROWS, 0>>, <<0, NUM_OF_COLS>>}

\* Mutant: the clicked square gets the Alive marker but keeps its colour.
handle_click_no_paint(click) ==
    /\ pc = "schedule"
    /\ "handle_click" \in to_run
    /\ to_run' = to_run \ {"handle_click"}
    /\ IF click = NoClick
       THEN UNCHANGED <<color, queue>>
       ELSE IF click[2] < 0 \/ click[1] < 0
       THEN UNCHANGED <<color, queue>>
       ELSE IF click \in Squares
       THEN /\ color' = color
            /\ queue' = Append(queue, InsertAlive(click))
       ELSE UNCHANGED <<color, queue>>
    /\ UNCHANGED <<game_state, next_game_state, logic_state, game_tick_timer,
                   alive, number_of_neighbors, entities_that_died, entities_born,
                   potentially_changed_squares, pc, read_alive, read_before,
                   last_run, unconsumed, presses, remaining>>

handle_click(click) ==
    /\ pc = "schedule"
    /\ "handle_click" \in to_run
    /\ to_run' = to_run \ {"handle_click"}
    /\ IF click = NoClick
       THEN UNCHANGED <<color, queue>>
       ELSE IF click[2] < 0 \/ click[1] < 0
       THEN UNCHANGED <<color, queue>>
       ELSE IF click \in Squares
       THEN /\ color' = [color EXCEPT ![click] = "BLACK"]
            /\ queue' = Append(queue, InsertAlive(click))
       ELSE UNCHANGED <<color, queue>>
    /\ UNCHANGED <<game_state, next_game_state, logic_state, game_tick_timer,
                   alive, number_of_neighbors, entities_that_died, entities_born,
                   potentially_changed_squares, pc, read_alive, read_before,
                   last_run, unconsumed, presses, remaining>>

\* Mutant: the timer has finished only once it is past its period.
JustFinished_Strict(elapsed, delta) == elapsed + delta > GAME_TICK_SECOND

\* Timer::tick of a repeating timer, and just_finished
TimerTick(elapsed, delta) == (elapsed + delta) % GAME_TICK_SECOND
JustFinished(elapsed, delta) == elapsed + delta >= GAME_TICK_SECOND

\* Mutant: the render step is requested once per tick interval that elapsed.
game_loop_backlog(delta) ==
    /\ pc = "schedule"
    /\ "game_loop" \in to_run
    /\ to_run' = to_run \ {"game_loop"}
    /\ CASE logic_state = "CalculationNeeded" ->
              /\ logic_state' = "CalculatingCurrently"
              /\ queue' = Append(queue, RunSystem("game_logic"))
              /\ UNCHANGED game_tick_timer
         [] logic_state = "CalculatingCurrently" ->
              UNCHANGED <<logic_state, queue, game_tick_timer>>
         [] logic_state = "Calculated" ->
              /\ game_tick_timer' = TimerTick(game_tick_timer, delta)
              /\ queue' = queue \o
                     [i \in 1 .. ((game_tick_timer + delta) \div GAME_TICK_SECOND) |->
                         RunSystem("render")]
              /\ UNCHANGED logic_state
    /\ UNCHANGED <<game_state, next_game_state, alive, color, number_of_neighbors,
                   entities_that_died, entities_born, potentially_changed_squares,
                   pc, read_alive, read_before, last_run, unconsumed, presses,
                   remaining>>

\* Mutant: a pass in CalculatingCurrently dispatches game_logic again.
game_loop_redispatch(delta) ==
    /\ pc = "schedule"
    /\ "game_loop" \in to_run
    /\ to_run' = to_run \ {"game_loop"}
    /\ CASE logic_state = "CalculationNeeded" ->
              /\ logic_state' = "CalculatingCurrently"
              /\ queue' = Append(queue, RunSystem("game_logic"))
              /\ UNCHANGED game_tick_timer
         [] logic_state = "CalculatingCurrently" ->
              /\ queue' = Append(queue, RunSystem("game_logic"))
              /\ UNCHANGED <<logic_state, game_tick_timer>>
         [] logic_state = "Calculated" ->
              /\ game_tick_timer' = TimerTick(game_tick_timer, delta)
              /\ queue' = IF JustFinished(game_tick_timer, delta)
                          THEN Append(queue, RunSystem("render"))
                          ELSE queue
              /\ UNCHANGED logic_state
    /\ UNCHANGED <<game_state, next_game_state, alive, color, number_of_neighbors,
                   entities_that_died, entities_born, potentially_changed_squares,
                   pc, read_alive, read_before, last_run, unconsumed, presses,
                   remaining>>

\* Mutant: LogicState is reset when the render step is dispatched, not when
\* it completes.
game_loop_reset_at_dispatch(delta) ==
    /\ pc = "schedule"
    /\ "game_loop" \in to_run
    /\ to_run' = to_run \ {"game_loop"}
    /\ CASE logic_state = "CalculationNeeded" ->
              /\ logic_state' = "CalculatingCurrently"
              /\ queue' = Append(queue, RunSystem("game_logic"))
              /\ UNCHANGED game_tick_timer
         [] logic_state = "CalculatingCurrently" ->
              UNCHANGED <<logic_state, queue, game_tick_timer>>
         [] logic_state = "Calculated" ->
              /\ game_tick_timer' = TimerTick(game_tick_timer, delta)
              /\ IF JustFinished(game_tick_timer, delta)
                 THEN /\ queue' = Append(queue, RunSystem("render"))
                      /\ logic_state' = "CalculationNeeded"
                 ELSE UNCHANGED <<queue, logic_state>>
    /\ UNCHANGED <<game_state, next_game_state, alive, color, number_of_neighbors,
                   entities_that_died, entities_born, potentially_changed_squares,
                   pc, read_alive, read_before, last_run, unconsumed, presses,
                   remaining>>

\* Mutant: game_logic is dispatched without marking LogicState.
game_loop_no_mark(delta) ==
    /\ pc = "schedule"
    /\ "game_loop" \in to_run
    /\ to_run' = to_run \ {"game_loop"}
    /\ CASE logic_state = "CalculationNeeded" ->
              /\ logic_state' = logic_state
              /\ queue' = Append(queue, RunSystem("game_logic"))
              /\ UNCHANGED game_tick_timer
         [] logic_state = "CalculatingCurrently" ->
              UNCHANGED <<logic_state, queue, game_tick_timer>>
         [] logic_state = "Calculated" ->
              /\ game_tick_timer' = TimerTick(game_tick_timer, delta)
              /\ queue' = IF JustFinished(game_tick_timer, delta)
                          THEN Append(queue, RunSystem("render"))
                          ELSE queue
              /\ UNCHANGED logic_state
    /\ UNCHANGED <<game_state, next_game_state, alive, color, number_of_neighbors,
                   entities_that_died, entities_born, potentially_changed_squares,
                   pc, read_alive, read_before, last_run, unconsumed, presses,
                   remaining>>

game_loop(delta) ==
    /\ pc = "schedule"
    /\ "game_loop" \in to_run
    /\ to_run' = to_run \ {"game_loop"}
    /\ CASE logic_state = "CalculationNeeded" ->
              /\ logic_state' = "CalculatingCurrently"
              /\ queue' = Append(queue, RunSystem("game_logic"))
              /\ UNCHANGED game_tick_timer
         [] logic_state = "CalculatingCurrently" ->
              UNCHANGED <<logic_state, queue, game_tick_timer>>
         [] logic_state = "Calculated" ->
              /\ game_tick_timer' = TimerTick(game_tick_timer, delta)
              /\ queue' = IF JustFinished(game_tick_timer, delta)
                          THEN Append(queue, RunSystem("render"))
                          ELSE queue
              /\ UNCHANGED logic_state
    /\ UNCHANGED <<game_state, next_game_state, alive, color, number_of_neighbors,
                   entities_that_died, entities_born, potentially_changed_squares,
                   pc, read_alive, read_before, last_run, unconsumed, presses,
                   remaining>>

---------------------------------------------------------------------------
(* The one-shot systems, run when their run_system command is applied *)

\* Mutant: game_logic does not clear the lists before it fills them.
game_logic_count_no_clear ==
    /\ Flushing
    /\ Head(queue) = RunSystem("game_logic")
    /\ queue' = Tail(queue)
    /\ UNCHANGED <<entities_born, entities_that_died>>
    /\ \E order \in IterationOrders(alive) :
         LET st == VisitAll(order, [cand |-> {}, counts |-> number_of_neighbors])
         IN  /\ potentially_changed_squares' = st.cand
             /\ number_of_neighbors' = st.counts
    /\ pc' = "game_logic"
    /\ read_alive' = alive
    /\ read_before' = read_alive
    /\ UNCHANGED <<game_state, next_game_state, logic_state, game_tick_timer,
                   alive, color, to_run, last_run, unconsumed, presses, remaining>>

\* game_logic up to the end of its first loop
game_logic_count ==
    /\ Flushing
    /\ Head(queue) = RunSystem("game_logic")
    /\ queue' = Tail(queue)
    /\ entities_born' = <<>>
    /\ entities_that_died' = <<>>
    /\ \E order \in IterationOrders(alive) :
         LET st == VisitAll(order, [cand |-> {}, counts |-> number_of_neighbors])
         IN  /\ potentially_changed_squares' = st.cand
             /\ number_of_neighbors' = st.counts
    /\ pc' = "game_logic"
    /\ read_alive' = alive
    /\ read_before' = read_alive
    /\ UNCHANGED <<game_state, next_game_state, logic_state, game_tick_timer,
                   alive, color, to_run, last_run, unconsumed, presses, remaining>>

\* game_logic's second loop and its completion
game_logic_evaluate ==
    /\ pc = "game_logic"
    /\ \E order \in IterationOrders(potentially_changed_squares) :
         LET st == EvaluateAll(order, alive,
                               [counts |-> number_of_neighbors,
                                died |-> entities_that_died,
                                born |-> entities_born])
         IN  /\ number_of_neighbors' = st.counts
             /\ entities_that_died' = st.died
             /\ entities_born' = st.born
    /\ potentially_changed_squares' = {}
    /\ logic_state' = "Calculated"
    /\ pc' = "schedule"
    /\ last_run' = "game_logic"
    /\ unconsumed' = unconsumed + 1
    /\ UNCHANGED <<game_state, next_game_state, game_tick_timer, alive, color,
                   queue, to_run, read_alive, read_before, presses, remaining>>

RECURSIVE Paint(_, _, _)
Paint(colors, entities, c) ==
    IF entities = <<>> THEN colors
    ELSE Paint([colors EXCEPT ![Head(entities)] = c], Tail(entities), c)

\* Mutant: the render step leaves LogicState at Calculated.
handle_rendering_no_reset ==
    /\ Flushing
    /\ Head(queue) = RunSystem("render")
    /\ color' = Paint(Paint(color, entities_that_died, "WHITE"), entities_born, "BLACK")
    /\ queue' = Tail(queue) \o RemoveAll(entities_that_died)
                            \o InsertAll(entities_born)
    /\ logic_state' = logic_state
    /\ last_run' = "handle_rendering"
    /\ unconsumed' = unconsumed - 1
    /\ UNCHANGED <<game_state, next_game_state, game_tick_timer, alive,
                   number_of_neighbors, entities_that_died, entities_born,
                   potentially_changed_squares, to_run, pc, read_alive,
                   read_before, presses, remaining>>

\* Mutant: the render step paints the born squares but does not mark them.
handle_rendering_no_insert ==
    /\ Flushing
    /\ Head(queue) = RunSystem("render")
    /\ color' = Paint(Paint(color, entities_that_died, "WHITE"), entities_born, "BLACK")
    /\ queue' = Tail(queue) \o RemoveAll(entities_that_died)
    /\ logic_state' = "CalculationNeeded"
    /\ last_run' = "handle_rendering"
    /\ unconsumed' = unconsumed - 1
    /\ UNCHANGED <<game_state, next_game_state, game_tick_timer, alive,
                   number_of_neighbors, entities_that_died, entities_born,
                   potentially_changed_squares, to_run, pc, read_alive, read_before,
                   presses, remaining>>

\* Mutant: the render step repaints the dead squares but keeps their marker.
handle_rendering_no_remove ==
    /\ Flushing
    /\ Head(queue) = RunSystem("render")
    /\ color' = Paint(Paint(color, entities_that_died, "WHITE"), entities_born, "BLACK")
    /\ queue' = Tail(queue) \o InsertAll(entities_born)
    /\ logic_state' = "CalculationNeeded"
    /\ last_run' = "handle_rendering"
    /\ unconsumed' = unconsumed - 1
    /\ UNCHANGED <<game_state, next_game_state, game_tick_timer, alive,
                   number_of_neighbors, entities_that_died, entities_born,
                   potentially_changed_squares, to_run, pc, read_alive,
                   read_before, presses, remaining>>

handle_rendering ==
    /\ Flushing
    /\ Head(queue) = RunSystem("render")
    /\ color' = Paint(Paint(color, entities_that_died, "WHITE"), entities_born, "BLACK")
    /\ queue' = Tail(queue) \o RemoveAll(entities_that_died)
                            \o InsertAll(entities_born)
    /\ logic_state' = "CalculationNeeded"
    /\ last_run' = "handle_rendering"
    /\ unconsumed' = unconsumed - 1
    /\ UNCHANGED <<game_state, next_game_state, game_tick_timer, alive,
                   number_of_neighbors, entities_that_died, entities_born,
                   potentially_changed_squares, to_run, pc, read_alive,
                   read_before, presses, remaining>>

\* insert::<Alive> and remove::<Alive>, applied in the order they were queued
RECURSIVE ApplyEntityCommands(_, _)
ApplyEntityCommands(live, cmds) ==
    IF cmds = <<>> THEN live
    ELSE ApplyEntityCommands(
             IF Head(cmds).op = "insert" THEN live \cup {Head(cmds).entity}
             ELSE IF Head(cmds).op = "remove" THEN live \ {Head(cmds).entity}
             ELSE live,
             Tail(cmds))

\* the entity commands a system left in its buffer are applied
apply_entity_commands ==
    /\ Flushing
    /\ \A i \in DOMAIN queue : queue[i].op \in {"insert", "remove"}
    /\ alive' = ApplyEntityCommands(alive, queue)
    /\ queue' = <<>>
    /\ UNCHANGED <<game_state, next_game_state, logic_state, game_tick_timer,
                   color, number_of_neighbors, entities_that_died, entities_born,
                   potentially_changed_squares, to_run, pc, read_alive,
                   read_before, last_run, unconsumed, presses, remaining>>

---------------------------------------------------------------------------
(* The application, from startup *)

Next ==
    \/ StateTransition
    \/ \E just_pressed \in {b \in BOOLEAN : b => presses < MaxPresses} :
          handle_state_change(just_pressed)
    \/ \E click \in ClickInputs : handle_click(click)
    \/ \E delta \in 1 .. MaxDelta : game_loop(delta)
    \/ game_logic_count
    \/ game_logic_evaluate
    \/ handle_rendering
    \/ apply_entity_commands

Spec == Init /\ [][Next]_vars

---------------------------------------------------------------------------
(* The generation engine on every pattern of one neighbourhood: the user has
   placed a pattern that fits in one square's Moore neighbourhood (clipped at
   the grid's edge) and switched to Ongoing; no key or button is pressed
   afterwards. *)

Abs(n) == IF n < 0 THEN -n ELSE n

\* two different squares that touch, by side or by corner (no wrap-around)
Adjacent(c, d) == c # d /\ Abs(c[1] - d[1]) <= 1 /\ Abs(c[2] - d[2]) <= 1

NeighbourhoodPatterns ==
    UNION {SUBSET {d \in Squares : d = c \/ Adjacent(c, d)} : c \in Squares}

InitEngine ==
    /\ alive \in NeighbourhoodPatterns
    /\ color = [c \in Squares |-> IF c \in alive THEN "BLACK" ELSE "WHITE"]
    /\ game_state = "Ongoing"
    /\ next_game_state = "None"
    /\ logic_state = "CalculationNeeded"
    /\ game_tick_timer = 0
    /\ number_of_neighbors = [c \in Squares |-> 0]
    /\ entities_that_died = <<>>
    /\ entities_born = <<>>
    /\ potentially_changed_squares = {}
    /\ remaining = {}
    /\ queue = <<>>
    /\ to_run = {}
    /\ pc = "schedule"
    /\ read_alive = {}
    /\ read_before = {}
    /\ last_run = "none"
    /\ unconsumed = 0
    /\ presses = 0

NextEngine ==
    \/ StateTransition
    \/ handle_state_change(FALSE)
    \/ game_loop(GAME_TICK_SECOND)
    \/ game_logic_count
    \/ game_logic_evaluate
    \/ handle_rendering
    \/ apply_entity_commands

EngineSpec == InitEngine /\ [][NextEngine]_vars

---------------------------------------------------------------------------
(* game_logic one loop iteration per step: the query over the Alive squares
   and the HashSet of candidates yield their elements in any order. The user
   has placed a pattern inside the grid's top-left 2 x 2 block, or on the first
   three squares of the second row, and switched to Ongoing; no key or button
   is pressed afterwards. *)

OrderPatterns ==
    (SUBSET {c \in Squares : c[1] <= 1 /\ c[2] <= 1})
    \cup (SUBSET {c \in Squares : c[1] = 1 /\ c[2] <= 2})

InitOrder ==
    /\ alive \in OrderPatterns
    /\ color = [c \in Squares |-> IF c \in alive THEN "BLACK" ELSE "WHITE"]
    /\ game_state = "Ongoing"
    /\ next_game_state = "None"
    /\ logic_state = "CalculationNeeded"
    /\ game_tick_timer = 0
    /\ number_of_neighbors = [c \in Squares |-> 0]
    /\ entities_that_died = <<>>
    /\ entities_born = <<>>
    /\ potentially_changed_squares = {}
    /\ remaining = {}
    /\ queue = <<>>
    /\ to_run = {}
    /\ pc = "schedule"
    /\ read_alive = {}
    /\ read_before = {}
    /\ last_run = "none"
    /\ unconsumed = 0
    /\ presses = 0

\* game_logic starts: the lists are cleared, the candidate set is created
\* empty, and the first loop is about to iterate the Alive squares
game_logic_start ==
    /\ Flushing
    /\ Head(queue) = RunSystem("game_logic")
    /\ queue' = Tail(queue)
    /\ entities_born' = <<>>
    /\ entities_that_died' = <<>>
    /\ potentially_changed_squares' = {}
    /\ remaining' = alive
    /\ pc' = "first_loop"
    /\ read_alive' = alive
    /\ read_before' = read_alive
    /\ UNCHANGED <<game_state, next_game_state, logic_state, game_tick_timer,
                   alive, color, number_of_neighbors, to_run, last_run, unconsumed,
                   presses>>

\* one iteration of the first loop, on any Alive square not yet visited
game_logic_visit ==
    /\ pc = "first_loop"
    /\ \E square \in remaining :
         LET st == VisitSquare(square, [cand   |-> potentially_changed_squares,
                                        counts |-> number_of_neighbors])
         IN  /\ potentially_changed_squares' = st.cand
             /\ number_of_neighbors' = st.counts
             /\ remaining' = remaining \ {square}
    /\ UNCHANGED <<game_state, next_game_state, logic_state, game_tick_timer,
                   alive, color, entities_that_died, entities_born, queue, to_run,
                   pc, read_alive, read_before, last_run, unconsumed, presses>>

\* the first loop is exhausted: the second loop is about to iterate the
\* candidate set
game_logic_counted ==
    /\ pc = "first_loop"
    /\ remaining = {}
    /\ remaining' = potentially_changed_squares
    /\ pc' = "second_loop"
    /\ UNCHANGED <<game_state, next_game_state, logic_state, game_tick_timer,
                   alive, color, number_of_neighbors, entities_that_died,
                   entities_born, potentially_changed_squares, queue, to_run,
                   read_alive, read_before, last_run, unconsumed, presses>>

\* one iteration of the second loop, on any candidate not yet visited
game_logic_evaluate_one ==
    /\ pc = "second_loop"
    /\ \E c \in remaining :
         LET st == EvaluateSquare(c, alive, [counts |-> number_of_neighbors,
                                            died   |-> entities_that_died,
                                            born   |-> entities_born])
         IN  /\ number_of_neighbors' = st.counts
             /\ entities_that_died' = st.died
             /\ entities_born' = st.born
             /\ remaining' = remaining \ {c}
    /\ UNCHANGED <<game_state, next_game_state, logic_state, game_tick_timer,
                   alive, color, potentially_changed_squares, queue, to_run, pc,
                   read_alive, read_before, last_run, unconsumed, presses>>

\* the second loop is exhausted: game_logic completes
game_logic_done ==
    /\ pc = "second_loop"
    /\ remaining = {}
    /\ potentially_changed_squares' = {}
    /\ logic_state' = "Calculated"
    /\ pc' = "schedule"
    /\ last_run' = "game_logic"
    /\ unconsumed' = unconsumed + 1
    /\ UNCHANGED <<game_state, next_game_state, game_tick_timer, alive, color,
                   number_of_neighbors, entities_that_died, entities_born,
                   remaining, queue, to_run, read_alive, read_before, presses>>

NextOrder ==
    \/ StateTransition
    \/ handle_state_change(FALSE)
    \/ game_loop(GAME_TICK_SECOND)
    \/ game_logic_start
    \/ game_logic_visit
    \/ game_logic_counted
    \/ game_logic_evaluate_one
    \/ game_logic_done
    \/ handle_rendering
    \/ apply_entity_commands

OrderSpec == InitOrder /\ [][NextOrder]_vars

---------------------------------------------------------------------------
(* game_loop on every value of the resources it reads: a pass in Ongoing mode
   begins with LogicState at any of its three values, the timer anywhere in
   its period and a pattern of the top-left 2 x 2 block alive. With LogicState
   at CalculationNeeded this is the state after the user's placement; at
   Calculated, the state after a calculation on the empty grid followed by a
   placement; at CalculatingCurrently, a pass that meets a calculation
   dispatched earlier and not completed. *)

InitGameLoop ==
    /\ logic_state \in {"CalculationNeeded", "CalculatingCurrently", "Calculated"}
    /\ game_tick_timer \in 0 .. GAME_TICK_SECOND - 1
    /\ alive \in SUBSET {c \in Squares : c[1] <= 1 /\ c[2] <= 1}
    /\ color = [c \in Squares |-> IF c \in alive THEN "BLACK" ELSE "WHITE"]
    /\ game_state = "Ongoing"
    /\ next_game_state = "None"
    /\ number_of_neighbors = [c \in Squares |-> 0]
    /\ entities_that_died = <<>>
    /\ entities_born = <<>>
    /\ potentially_changed_squares = {}
    /\ remaining = {}
    /\ queue = <<>>
    /\ to_run = {}
    /\ pc = "schedule"
    /\ read_alive = {}
    /\ read_before = {}
    /\ last_run = IF logic_state = "Calculated" THEN "game_logic" ELSE "none"
    /\ unconsumed = IF logic_state = "Calculated" THEN 1 ELSE 0
    /\ presses = 0

NextGameLoop ==
    \/ StateTransition
    \/ handle_state_change(FALSE)
    \/ \E delta \in 1 .. MaxDelta : game_loop(delta)
    \/ game_logic_count
    \/ game_logic_evaluate
    \/ handle_rendering
    \/ apply_entity_commands

GameLoopSpec == InitGameLoop /\ [][NextGameLoop]_vars

---------------------------------------------------------------------------
(* The running simulation: squares among the first three of the second row
   are placed, the application is in Ongoing mode and stays there, frames of
   any length 1 .. MaxDelta follow one another, game_logic runs one loop
   iteration per step, and the schedule keeps running: a pass that can begin
   does begin, a scheduled system runs, a queued command is applied, a loop
   that has an element left takes it. *)

InitFair ==
    /\ InitOrder
    /\ alive \subseteq {c \in Squares : c[1] = 1 /\ c[2] <= 2}

NextFair ==
    \/ StateTransition
    \/ handle_state_change(FALSE)
    \/ \E delta \in 1 .. MaxDelta : game_loop(delta)
    \/ game_logic_start
    \/ game_logic_visit
    \/ game_logic_counted
    \/ game_logic_evaluate_one
    \/ game_logic_done
    \/ handle_rendering
    \/ apply_entity_commands

FairSpec == InitFair /\ [][NextFair]_vars /\ WF_vars(NextFair)

---------------------------------------------------------------------------
(* Reference definitions for the properties *)

\* the number of live squares around c, squares outside the grid being dead
LiveNeighbours(c, live) == Cardinality({d \in live : Adjacent(c, d)})

\* Conway's rule: birth on exactly 3, survival on 2 or 3, death otherwise
ConwayNext(live) ==
    {c \in Squares :
        LET n == LiveNeighbours(c, live)
        IN  IF c \in live THEN n = 2 \/ n = 3 ELSE n = 3}

\* game_logic has completed and nothing has run since
AfterGameLogic == PassBoundary /\ last_run = "game_logic"

\* handle_rendering has completed and its commands are applied
AfterRendering == PassBoundary /\ last_run = "handle_rendering"

\* the invocations of a one-shot system dispatched and not yet completed
InFlight(system) ==
    Cardinality({i \in DOMAIN queue : queue[i] = RunSystem(system)})
    + (IF system = "game_logic" /\ pc = "game_logic" THEN 1 ELSE 0)

\* three-cell lines through centre c: vertical ("v") and horizontal ("h")
Line(c, o) ==
    IF o = "v" THEN {<<c[1] - 1, c[2]>>, c, <<c[1] + 1, c[2]>>}
    ELSE {<<c[1], c[2] - 1>>, c, <<c[1], c[2] + 1>>}

Perpendicular(o) == IF o = "v" THEN "h" ELSE "v"

\* centres whose two lines, and every neighbour of them, lie inside the grid
BlinkerCentres ==
    {c \in Squares : /\ c[1] >= 2 /\ c[1] <= NUM_OF_ROWS - 3
                     /\ c[2] >= 2 /\ c[2] <= NUM_OF_COLS - 3}

\* the list holds exactly the squares of S, each once
ListsExactly(list, S) == Range(list) = S /\ Len(list) = Cardinality(S)

\* game_logic's two loops run in row-major order on the live set it read
ZeroCounters == CHOOSE counts \in [Squares -> {0}] : TRUE

InOrderCount ==
    VisitAll(Ascending(read_alive), [cand |-> {}, counts |-> ZeroCounters])

InOrderResult ==
    EvaluateAll(Ascending(InOrderCount.cand), read_alive,
                [counts |-> InOrderCount.counts, died |-> <<>>, born |-> <<>>])

---------------------------------------------------------------------------
(* Properties *)

\* C1: when game_logic has run on a live set and handle_rendering has applied
\* its lists, with no placement in between, the Alive squares are exactly
\* Conway's next generation of that live set (outside the grid is dead).
C1_ConwayStep == AfterRendering => alive = ConwayNext(read_alive)

C1_Witness ==
    /\ AfterRendering
    /\ entities_that_died # <<>>
    /\ entities_born # <<>>
    /\ \E c \in read_alive : c \in alive /\ LiveNeighbours(c, read_alive) = 2
    /\ alive = ConwayNext(read_alive)

\* C2: after game_logic, a square that was alive with 2 or 3 live neighbours
\* is not in entities_that_died, and a square that was alive with any other
\* number of live neighbours is.
C2_DiedRule ==
    AfterGameLogic =>
        \A c \in read_alive :
            (LiveNeighbours(c, read_alive) \in {2, 3}) <=> (c \notin Range(entities_that_died))

C2_Witness ==
    /\ AfterGameLogic
    /\ \A n \in {1, 4} :
          \E c \in read_alive :
              LiveNeighbours(c, read_alive) = n /\ c \in Range(entities_that_died)
    /\ \A n \in {2, 3} :
          \E c \in read_alive :
              LiveNeighbours(c, read_alive) = n /\ c \notin Range(entities_that_died)

\* C3: after game_logic, a square that was dead with exactly 3 live neighbours
\* is in entities_born, and a dead square with any other count is in neither
\* list.
C3_BornRule ==
    AfterGameLogic =>
        \A c \in Squares \ read_alive :
            IF LiveNeighbours(c, read_alive) = 3
            THEN c \in Range(entities_born)
            ELSE c \notin Range(entities_born) /\ c \notin Range(entities_that_died)

C3_Witness ==
    /\ AfterGameLogic
    /\ \E c \in Squares \ read_alive :
          LiveNeighbours(c, read_alive) = 3 /\ c \in Range(entities_born)
    /\ \A n \in {1, 2, 4, 5} :
          \E c \in Squares \ read_alive :
              /\ LiveNeighbours(c, read_alive) = n
              /\ c \notin Range(entities_born)
              /\ c \notin Range(entities_that_died)

\* C4: whenever game_logic is not executing, every counter of SquareMap is 0,
\* after any generations, placements and mode toggles.
C4_CountersZero ==
    pc # "game_logic" => \A c \in Squares : number_of_neighbors[c] = 0

C4_Witness ==
    /\ AfterGameLogic
    /\ presses >= 3
    /\ read_before # {}
    /\ \E c \in Squares : LiveNeighbours(c, read_alive) = 2
    /\ \A c \in Squares : number_of_neighbors[c] = 0

\* C5: at the end of game_logic's first loop every counter holds the number
\* of live in-bounds neighbours of its square and the candidate set is the
\* live squares and their in-bounds neighbours: an offset that leaves the
\* grid reaches no square, in particular none on the opposite edge.
C5_NoWrap ==
    pc = "game_logic" =>
        /\ DOMAIN number_of_neighbors = Squares
        /\ \A c \in Squares : number_of_neighbors[c] = LiveNeighbours(c, read_alive)
        /\ potentially_changed_squares =
               read_alive \cup {c \in Squares : LiveNeighbours(c, read_alive) > 0}

C5_Witness ==
    /\ pc = "game_logic"
    /\ <<0, 0>> \in read_alive
    /\ potentially_changed_squares = {<<0, 0>>, <<0, 1>>, <<1, 0>>, <<1, 1>>}
    /\ number_of_neighbors[<<0, 1>>] = 1
    /\ number_of_neighbors[<<0, NUM_OF_COLS - 1>>] = 0
    /\ number_of_neighbors[<<NUM_OF_ROWS - 1, 0>>] = 0

\* C6 as stated: at most one game_logic and at most one handle_rendering are
\* in flight, and LogicState alone rules out a second dispatch: while one is
\* in flight, LogicState is not the value at which game_loop dispatches it.
C6_LogicStateAloneGuards ==
    /\ InFlight("game_logic") <= 1
    /\ InFlight("render") <= 1
    /\ InFlight("game_logic") > 0 => logic_state # "CalculationNeeded"
    /\ InFlight("render") > 0 => logic_state # "Calculated"

\* C6 as amended: at most one of each is in flight; a game_logic in flight
\* has LogicState at CalculatingCurrently; a handle_rendering in flight has
\* LogicState still at Calculated, and what rules out a second dispatch is
\* that game_loop has already run in this pass and the commands are applied
\* before the next pass.
C6_AtMostOneInFlight ==
    /\ InFlight("game_logic") <= 1
    /\ InFlight("render") <= 1
    /\ InFlight("game_logic") > 0 => logic_state = "CalculatingCurrently"
    /\ InFlight("render") > 0 => logic_state = "Calculated" /\ "game_loop" \notin to_run

C6_Witness ==
    /\ InFlight("render") = 1
    /\ presses >= 3
    /\ read_before # {}

\* C7: game_logic and handle_rendering executions strictly alternate,
\* game_logic first: the number of results produced and not yet applied is
\* always 0 or 1.
C7_Alternation == unconsumed \in {0, 1}

C7_Witness ==
    /\ AfterGameLogic
    /\ unconsumed = 1
    /\ read_before # {}
    /\ read_alive # read_before
    /\ presses >= 2

\* C8: a step taken in Placing mode changes neither LogicState, the lists,
\* the timer nor a counter and dispatches no one-shot system; the only
\* commands queued are insertions of Alive for squares of the grid, applying
\* them adds exactly those squares to the live set, no square loses its
\* marker, and a square is only ever painted BLACK.
C8_PlacingInert ==
    [][game_state = "Placing" =>
          /\ UNCHANGED <<logic_state, entities_that_died, entities_born,
                         game_tick_timer, number_of_neighbors>>
          /\ \A i \in DOMAIN queue' :
                queue'[i].op = "insert" /\ queue'[i].entity \in Squares
          /\ alive' = IF Flushing
                      THEN alive \cup {queue[i].entity : i \in DOMAIN queue}
                      ELSE alive
          /\ \A c \in Squares : color'[c] # color[c] => color'[c] = "BLACK"]_vars

C8_Witness ==
    /\ game_state = "Placing"
    /\ logic_state = "Calculated"
    /\ game_tick_timer = 1
    /\ PassBoundary
    /\ entities_that_died # <<>>
    /\ \E c \in alive : c \notin read_alive

\* C9: from a three-cell line away from the grid's edges, game_logic lists
\* the line's two ends as died and the perpendicular line's two ends as born,
\* one cycle yields the perpendicular line and a second cycle the original.
C9_Blinker ==
    \A c \in BlinkerCentres : \A o \in {"v", "h"} :
        LET line == Line(c, o)
            perp == Line(c, Perpendicular(o))
        IN  /\ (AfterGameLogic /\ read_alive = line) =>
                   /\ ListsExactly(entities_that_died, line \ {c})
                   /\ ListsExactly(entities_born, perp \ {c})
            /\ (AfterRendering /\ read_alive = line) => alive = perp
            /\ (AfterRendering /\ read_before = line) =>
                   read_alive = perp /\ alive = line

C9_Witness ==
    /\ AfterRendering
    /\ \E c \in BlinkerCentres : \E o \in {"v", "h"} :
          /\ read_before = Line(c, o)
          /\ read_alive = Line(c, Perpendicular(o))
          /\ alive = Line(c, o)

\* C10: between passes a square's sprite is BLACK exactly when the square
\* carries the Alive marker.
C10_ColourMatchesAlive ==
    PassBoundary => \A c \in Squares : (color[c] = "BLACK") <=> (c \in alive)

C10_Witness ==
    /\ AfterRendering
    /\ presses >= 3
    /\ entities_that_died # <<>>
    /\ entities_born # <<>>
    /\ \E c \in Range(entities_that_died) : color[c] = "WHITE"
    /\ \E c \in Range(entities_born) : color[c] = "BLACK"

\* C11: whatever order the first loop visits the Alive squares in and the
\* second loop the candidates in, the candidate set and the counters after
\* the first loop, and the died set, the born set and the all-zero counters
\* after game_logic, are those of the row-major order on the same live set.
C11_OrderIndependent ==
    /\ (pc = "second_loop" /\ remaining = potentially_changed_squares) =>
           /\ potentially_changed_squares = InOrderCount.cand
           /\ number_of_neighbors = InOrderCount.counts
    /\ AfterGameLogic =>
           /\ Range(entities_that_died) = Range(InOrderResult.died)
           /\ Range(entities_born) = Range(InOrderResult.born)
           /\ number_of_neighbors = InOrderResult.counts
           /\ \A c \in Squares : number_of_neighbors[c] = 0

\* game_logic has completed on three or more squares and listed its results
\* in an order that is not the row-major one
C11_Witness ==
    /\ AfterGameLogic
    /\ Cardinality(read_alive) >= 3
    /\ entities_that_died # <<>>
    /\ entities_born # <<>>
    /\ entities_that_died # InOrderResult.died
    /\ entities_born # InOrderResult.born
    /\ Range(entities_that_died) = Range(InOrderResult.died)
    /\ Range(entities_born) = Range(InOrderResult.born)

\* C12: every live square is a candidate, so it is evaluated even with no
\* live neighbour: from a live set of one square, anywhere on the grid,
\* game_logic leaves died = [that square] and born = []; from the empty live
\* set it leaves both lists empty.
C12_IsolatedCellDies ==
    /\ pc = "game_logic" => read_alive \subseteq potentially_changed_squares
    /\ AfterGameLogic =>
           /\ read_alive = {} => entities_that_died = <<>> /\ entities_born = <<>>
           /\ \A c \in Squares :
                 read_alive = {c} =>
                     entities_that_died = <<c>> /\ entities_born = <<>>

\* the single live square is the grid's last corner
C12_Witness ==
    /\ AfterGameLogic
    /\ read_alive = {<<NUM_OF_ROWS - 1, NUM_OF_COLS - 1>>}
    /\ entities_that_died = <<<<NUM_OF_ROWS - 1, NUM_OF_COLS - 1>>>>
    /\ entities_born = <<>>

\* C13: a step that changes LogicState is one of three: game_loop takes it
\* from CalculationNeeded to CalculatingCurrently and dispatches game_logic;
\* game_logic, completing, takes it from CalculatingCurrently to Calculated;
\* handle_rendering, completing, takes it from Calculated to
\* CalculationNeeded. This holds in every mode and across mode toggles.
C13_LogicStateCycle ==
    [][logic_state' # logic_state =>
          \/ /\ logic_state = "CalculationNeeded"
             /\ logic_state' = "CalculatingCurrently"
             /\ "game_loop" \in to_run /\ "game_loop" \notin to_run'
             /\ queue' = Append(queue, RunSystem("game_logic"))
          \/ /\ logic_state = "CalculatingCurrently"
             /\ logic_state' = "Calculated"
             /\ pc = "game_logic" /\ pc' = "schedule"
             /\ last_run' = "game_logic"
          \/ /\ logic_state = "Calculated"
             /\ logic_state' = "CalculationNeeded"
             /\ queue # <<>> /\ Head(queue) = RunSystem("render")
             /\ last_run' = "handle_rendering"]_vars

\* a second cycle has begun after a cycle that was interrupted by a stay in
\* Placing mode during which a square was placed
C13_Witness ==
    /\ logic_state = "CalculatingCurrently"
    /\ last_run = "handle_rendering"
    /\ presses >= 3
    /\ read_before # {}
    /\ \E c \in alive : c \notin ConwayNext(read_alive)

\* C14: a run of game_loop with LogicState at CalculatingCurrently queues no
\* command (no game_logic, no render), does not tick the timer, and leaves
\* LogicState, the lists, the live set, the sprites and the counters as they
\* are.
C14_CalculatingCurrentlyIdle ==
    [][(/\ logic_state = "CalculatingCurrently"
        /\ "game_loop" \in to_run
        /\ "game_loop" \notin to_run') =>
          UNCHANGED <<logic_state, queue, game_tick_timer, entities_that_died,
                      entities_born, alive, color, number_of_neighbors,
                      potentially_changed_squares, pc, game_state,
                      next_game_state>>]_vars

\* game_loop has run in this pass with LogicState at CalculatingCurrently and
\* with the timer part-way through its period
C14_Witness ==
    /\ logic_state = "CalculatingCurrently"
    /\ game_state = "Ongoing"
    /\ pc = "schedule"
    /\ to_run # {}
    /\ "game_loop" \notin to_run
    /\ queue = <<>>
    /\ game_tick_timer = 1
    /\ alive # {}

\* C15: a run of game_loop with LogicState at Calculated, for a frame of any
\* length delta, leaves LogicState, the lists and the live set as they are;
\* when the timer does not complete its period within the frame nothing is
\* queued, and when it does, however many periods the frame spans, exactly
\* one handle_rendering is queued.
C15_TickGating ==
    [][\A delta \in 1 .. MaxDelta :
          (logic_state = "Calculated" /\ game_loop(delta)) =>
              /\ UNCHANGED <<logic_state, entities_that_died, entities_born, alive>>
              /\ IF game_tick_timer + delta < GAME_TICK_SECOND
                 THEN queue' = <<>>
                 ELSE queue' = <<RunSystem("render")>>]_vars

\* one handle_rendering is requested by a frame that overran the timer's
\* period, in a generation that is not the first
C15_Witness ==
    /\ logic_state = "Calculated"
    /\ queue = <<RunSystem("render")>>
    /\ game_tick_timer = 1
    /\ "game_loop" \notin to_run
    /\ read_before # {}
    /\ entities_that_died # <<>>

\* C16: handle_rendering itself leaves the markers alone and queues one
\* command per listed square; when its commands are applied, no square of
\* entities_that_died is Alive, every square of entities_born is Alive, and a
\* square in neither list is Alive exactly if it was before the step. This
\* holds also when squares were placed since the lists were computed.
C16_RenderChangesListed ==
    [][/\ (Flushing /\ Head(queue) = RunSystem("render")) =>
            /\ alive' = alive
            /\ Len(queue') = Len(entities_that_died) + Len(entities_born)
       /\ (/\ Flushing
           /\ Head(queue).op # "run_system"
           /\ game_state = "Ongoing"
           /\ last_run = "handle_rendering") =>
            /\ queue' = <<>>
            /\ \A c \in Range(entities_that_died) : c \notin alive'
            /\ \A c \in Range(entities_born) : c \in alive'
            /\ \A c \in Squares :
                  c \notin Range(entities_that_died) \cup Range(entities_born) =>
                      (c \in alive' <=> c \in alive)]_vars

\* the lists of a calculation have been applied to a live set that holds a
\* square placed after the calculation; that square is still Alive
C16_Witness ==
    /\ AfterRendering
    /\ game_state = "Ongoing"
    /\ entities_that_died # <<>>
    /\ entities_born # <<>>
    /\ Range(entities_that_died) \cap alive = {}
    /\ Range(entities_born) \subseteq alive
    /\ \E c \in alive : c \notin read_alive /\ c \notin Range(entities_born)

\* C17 as stated: once handle_rendering has completed and LogicState is back
\* at CalculationNeeded, both lists are empty.
C17_RenderClearsLists ==
    (logic_state = "CalculationNeeded" /\ last_run = "handle_rendering") =>
        entities_that_died = <<>> /\ entities_born = <<>>

\* C17 as amended: handle_rendering leaves both lists as they are; they are
\* emptied when the next game_logic starts, before its loops run, and no step
\* outside game_logic changes them.
C17_GameLogicClearsLists ==
    [][/\ (Flushing /\ Head(queue) = RunSystem("render")) =>
            UNCHANGED <<entities_that_died, entities_born>>
       /\ (Flushing /\ Head(queue) = RunSystem("game_logic")) =>
            entities_that_died' = <<>> /\ entities_born' = <<>>
       /\ <<entities_that_died, entities_born>>' # <<entities_that_died, entities_born>>
            => (Flushing /\ Head(queue) = RunSystem("game_logic")) \/ pc = "game_logic"
      ]_vars

\* handle_rendering has completed, LogicState is back at CalculationNeeded
\* and the lists still hold what was applied
C17_Witness ==
    /\ PassBoundary
    /\ logic_state = "CalculationNeeded"
    /\ last_run = "handle_rendering"
    /\ entities_that_died # <<>>
    /\ entities_born # <<>>
    /\ Range(entities_that_died) \cap alive = {}

\* C18: when handle_rendering runs, the Alive squares are exactly those the
\* game_logic that produced the lists read, in every execution, with stays
\* in Placing mode between the calculation and the rendering included.
C18_AppliedToReadSet ==
    (Flushing /\ Head(queue) = RunSystem("render")) => alive = read_alive

\* C19: the lists game_logic leaves never share a square, neither holds a
\* square twice, and every square of entities_that_died was Alive when
\* game_logic read the live set.
C19_ListsDisjoint ==
    /\ Range(entities_that_died) \cap Range(entities_born) = {}
    /\ Cardinality(Range(entities_that_died)) = Len(entities_that_died)
    /\ Cardinality(Range(entities_born)) = Len(entities_born)
    /\ Range(entities_that_died) \subseteq read_alive

\* game_logic has listed several squares in each list, among the born ones a
\* square that was already Alive (it has exactly three live neighbours)
C19_Witness ==
    /\ AfterGameLogic
    /\ Len(entities_that_died) >= 2
    /\ Len(entities_born) >= 2
    /\ \E c \in Range(entities_born) : c \in read_alive
    /\ \E c \in Range(entities_born) : c \notin read_alive

\* C20: while the application stays in Ongoing mode and passes keep running
\* with time advancing, LogicState is at Calculated again and again and at
\* CalculationNeeded again and again: from every state a result is computed
\* and later applied, and the scheduler stays neither in
\* CalculatingCurrently nor in Calculated.
C20_Progress ==
    /\ []<>(logic_state = "Calculated")
    /\ []<>(logic_state = "CalculationNeeded" /\ last_run = "handle_rendering")
    /\ (logic_state = "CalculatingCurrently") ~> (logic_state = "Calculated")
    /\ (logic_state = "Calculated") ~> (logic_state = "CalculationNeeded")

\* a second generation has been applied, the timer part-way into its period
C20_Witness ==
    /\ PassBoundary
    /\ logic_state = "CalculationNeeded"
    /\ last_run = "handle_rendering"
    /\ read_before # {}
    /\ read_before # read_alive
    /\ game_tick_timer = 1

====
